---- MODULE Spec2Model ----
(***************************************************************************)
(* Model of internal/engine/stmt_list.go of gopatch: the matcher and the   *)
(* replacer for AST nodes that contain a statement slice (BlockStmt,       *)
(* CaseClause, CommClause), and the compilation of a pgo.StmtList into     *)
(* them.                                                                   *)
(*                                                                         *)
(* reflect.Value is modelled as a record [ptr, type, fields]: whether the  *)
(* value is held through a pointer, the name of the (element) type and the *)
(* field values in declaration order.  Field indexes are 0-based as in Go; *)
(* field i of a value is fields[i + 1].                                    *)
(* data.Data is modelled as the chain of entries pushed by data.WithValue, *)
(* oldest first.  Positions (token.Pos) are offsets into the source text. *)
(* The statement-list matcher and replacer (the Stmts fields), data.Data   *)
(* and the Changelog are collaborators, modelled at their interface.       *)
(***************************************************************************)
EXTENDS Integers, Sequences, FiniteSets, TLC

\* ---------------------------------------------------------------- bounds
MaxSlot == 1      \* target nodes start at the offsets 0, 2, .., 2 * MaxSlot
MaxStmts == 1     \* longest statement list of a target node or a patch
MaxOps == 2       \* Match/Replace invocations in one behaviour
MaxApply == 2     \* nodes a patch is applied to in one behaviour

VARIABLES
    matcher,      \* stmtSliceContainerMatcher: [compiled, Stmts]
    replacer,     \* stmtSliceContainerReplacer: [compiled, Stmts]
    d,            \* data.Data held by the driver (result of the last Match)
    ledger,       \* Changelog: the regions passed to cl.Unchanged, in order
    ledgerIds,    \* history: for each ledger entry, the stmtListData it came from
    nsites,       \* history: number of stmtListData values created so far
    ret,          \* the last invocation: its inputs, results and the calls it made
    nops          \* number of Match/Replace invocations so far

vars == <<matcher, replacer, d, ledger, ledgerIds, nsites, ret, nops>>

\* ------------------------------------------------------------ AST shapes
BlockStmtType == "BlockStmt"
CaseClauseType == "CaseClause"
CommClauseType == "CommClause"
ParenExprType == "ParenExpr"

\* Field names of a struct type, in declaration order (t.Field(i).Name), as
\* go/ast declares them.
FieldNames(t) ==
    CASE t = BlockStmtType -> <<"Lbrace", "List", "Rbrace">>
      [] t = CaseClauseType -> <<"Case", "List", "Colon", "Body">>
      [] t = CommClauseType -> <<"Case", "Comm", "Colon", "Body">>
      [] t = ParenExprType -> <<"Lparen", "X", "Rparen">>
      [] OTHER -> <<>>

NumField(t) == Len(FieldNames(t))

\* v.Field(i), 0-based
Field(v, i) == v.fields[i + 1]

\* v.FieldByName(name)
FieldByName(v, name) ==
    LET i == CHOOSE j \in 0..(NumField(v.type) - 1) : FieldNames(v.type)[j + 1] = name
    IN Field(v, i)

\* reflect.New(t).Elem(): the zero value of each field.  A token.Pos is a
\* number, a slice the sequence of its elements, an interface value (Comm, X)
\* the sequence of the one node it holds, empty when nil.
ZeroFields(t) ==
    CASE t = BlockStmtType -> <<0, <<>>, 0>>
      [] t = CaseClauseType -> <<0, <<>>, 0, <<>>>>
      [] t = CommClauseType -> <<0, <<>>, 0, <<>>>>
      [] t = ParenExprType -> <<0, <<>>, 0>>
      [] OTHER -> <<>>

\* reflect.Value{}: the invalid value returned next to an error
NoValue == [ptr |-> FALSE, type |-> "invalid", fields |-> <<>>]

\* ------------------------------------------------------------ statements
StmtNames == {"a"}

RECURSIVE SeqsUpTo(_, _)
SeqsUpTo(S, n) ==
    IF n = 0 THEN {<<>>}
    ELSE LET shorter == SeqsUpTo(S, n - 1)
         IN shorter \cup {Append(s, x) : s \in {t \in shorter : Len(t) = n - 1}, x \in S}

\* a plain statement or expression of a target or of a patch
Stmt(name) == [dots |-> FALSE, name |-> name, pos |-> 0]

\* func dotsStmt(pos): &ast.ExprStmt{X: &pgo.Dots{Dots: pos}}
dotsStmt(pos) == [dots |-> TRUE, name |-> "...", pos |-> pos]

StmtLists == {[i \in 1..Len(s) |-> Stmt(s[i])] : s \in SeqsUpTo(StmtNames, MaxStmts)}

\* The offsets at which a target node starts: a container takes two tokens
\* at least.
Positions == {2 * k : k \in 0..MaxSlot}

\* the largest offset of a region: past the last token of the last target
MaxOffset == 2 * MaxSlot + MaxStmts + 2

Region(pos, end) == [Pos |-> pos, End |-> end]

\* ------------------------------------------------------------- data.Data
stmtListKey == "stmtListKey"
varKey == "var"

EmptyData == <<>>

\* The identity of a value pushed on a context: for the stmtListData that
\* Match creates, its serial number n and the region of the node it was
\* captured from; NoId for any other value.
SiteId(n, r) == [n |-> n, site |-> r]

NoId == SiteId(0, Region(0, 0))

\* data.WithValue(d, key, val): a new chain; id names the value pushed
WithValue(dd, key, val, id) == Append(dd, [key |-> key, val |-> val, id |-> id])

HasKey(dd, key) == \E i \in 1..Len(dd) : dd[i].key = key

\* index of the entry data.Lookup finds: the most recent one under key
LookupIdx(dd, key) ==
    CHOOSE i \in 1..Len(dd) : dd[i].key = key /\ \A j \in (i + 1)..Len(dd) : dd[j].key # key

\* data.Lookup(d, key, &out): found, and the value stored into out
Lookup(dd, key) ==
    IF HasKey(dd, key)
    THEN [found |-> TRUE, val |-> dd[LookupIdx(dd, key)].val, id |-> dd[LookupIdx(dd, key)].id]
    ELSE [found |-> FALSE, val |-> <<>>, id |-> NoId]

\* The context a driver starts a match with: it holds the bindings made so
\* far, and no shape metadata, the statement-list pattern being the top level
\* of a patch.
PatchData == WithValue(EmptyData, varKey, "bound", NoId)

\* ------------------------------------------------- compilePGoStmtList
\* Mutant: the trailing dots are not appended.
matcherCompiler_compilePGoStmtList_noTrailingDots(slist, patchStart, patchEnd) ==
    LET list == IF Len(slist) > 0
                THEN <<dotsStmt(patchStart)>> \o slist
                ELSE <<>>
    IN [compiled |-> TRUE, Stmts |-> list]

\* The []ast.Stmt handed to c.compile: the patch's statements between two
\* dots statements when the patch has statements, the nil slice otherwise.
\* The compiled Matcher/Replacer is represented by that slice.
matcherCompiler_compilePGoStmtList(slist, patchStart, patchEnd) ==
    LET list == IF Len(slist) > 0
                THEN <<dotsStmt(patchStart)>> \o slist \o <<dotsStmt(patchEnd)>>
                ELSE <<>>
    IN [compiled |-> TRUE, Stmts |-> list]

replacerCompiler_compilePGoStmtList(slist, patchStart, patchEnd) ==
    LET list == IF Len(slist) > 0
                THEN <<dotsStmt(patchStart)>> \o slist \o <<dotsStmt(patchEnd)>>
                ELSE <<>>
    IN [compiled |-> TRUE, Stmts |-> list]

\* --------------------------------------------------------------- events
\* The calls an invocation makes on its collaborators, in order, each with
\* its arguments and with what it returned.
NoCall ==
    [ev |-> "none", v |-> <<>>, d |-> EmptyData, r |-> Region(0, 0), pos |-> 0,
     rd |-> EmptyData, ok |-> FALSE, stmts |-> <<>>, err |-> ""]

\* m.Stmts.Match(v, d, r) returned (rd, ok)
MatchCall(v, dd, r, rd, ok) ==
    [NoCall EXCEPT !.ev = "Stmts.Match", !.v = v, !.d = dd, !.r = r, !.rd = rd, !.ok = ok]

\* r.Stmts.Replace(d, cl, pos) returned (stmts, err)
ReplaceCall(dd, pos, stmts, err) ==
    [NoCall EXCEPT !.ev = "Stmts.Replace", !.d = dd, !.pos = pos, !.stmts = stmts, !.err = err]

\* cl.Unchanged(pos, end)
UnchangedCall(pos, end) == [NoCall EXCEPT !.ev = "Unchanged", !.r = Region(pos, end)]

\* ------------------------------------------- stmtSliceContainerMatcher
\* Mutant: the switch has no case for CommClause.
stmtFieldOf_noCommClause(t) ==
    CASE t = BlockStmtType -> "List"
      [] t = CaseClauseType -> "Body"
      [] OTHER -> ""

\* The type switch: the name of the field holding the []Stmt, "" for a type
\* that is no statement container (the default branch).
stmtFieldOf(t) ==
    CASE t = BlockStmtType -> "List"
      [] t \in {CaseClauseType, CommClauseType} -> "Body"
      [] OTHER -> ""

\* Position of the end of the text right before the statements start.
stmtPreludeEndOf(v, r) ==
    IF v.type = BlockStmtType THEN r.Pos ELSE FieldByName(v, "Colon")

\* Mutant: the loop stops one field short.
RECURSIVE otherFieldsFrom_oneShort(_, _, _)
otherFieldsFrom_oneShort(v, stmtField, i) ==
    IF i >= NumField(v.type) - 1 THEN <<>>
    ELSE IF FieldNames(v.type)[i + 1] = stmtField
         THEN otherFieldsFrom_oneShort(v, stmtField, i + 1)
         ELSE <<[FieldIdx |-> i, Value |-> Field(v, i)]>>
                  \o otherFieldsFrom_oneShort(v, stmtField, i + 1)

\* The loop over the fields: the fields besides the one containing []Stmt.
RECURSIVE otherFieldsFrom(_, _, _)
otherFieldsFrom(v, stmtField, i) ==
    IF i >= NumField(v.type) THEN <<>>
    ELSE IF FieldNames(v.type)[i + 1] = stmtField
         THEN otherFieldsFrom(v, stmtField, i + 1)
         ELSE <<[FieldIdx |-> i, Value |-> Field(v, i)]>> \o otherFieldsFrom(v, stmtField, i + 1)

\* The loop over the fields: the field containing []Stmt.
stmtsFieldOf(v, stmtField) ==
    LET i == CHOOSE j \in 0..(NumField(v.type) - 1) : FieldNames(v.type)[j + 1] = stmtField
    IN [FieldIdx |-> i, Value |-> Field(v, i)]

\* Mutant: the scan position is left on the prelude boundary.
advance_onBoundary(r, stmtPreludeEnd) == [r EXCEPT !.Pos = stmtPreludeEnd]

\* r.Pos = stmtPreludeEnd + 1
advance(r, stmtPreludeEnd) == [r EXCEPT !.Pos = stmtPreludeEnd + 1]

\* Mutant: Pos of the region is left at its zero value.
unchangedRegionOf_zeroPos(r2, stmtPreludeEnd) == Region(0, stmtPreludeEnd)

\* UnchangedRegion: Region{Pos: r.Pos, End: stmtPreludeEnd}, r.Pos already advanced
unchangedRegionOf(r2, stmtPreludeEnd) == Region(r2.Pos, stmtPreludeEnd)

\* The Stmts matcher, a collaborator: it matches or not (outcome.matched); on
\* a match it may extend the context it was given with its own bindings
\* (outcome.binds), on a failure it hands back the context it was given.
StmtsMatch(outcome, v, dd, r) ==
    [d |-> IF outcome.matched /\ outcome.binds
           THEN WithValue(dd, varKey, "bound", NoId)
           ELSE dd,
     matched |-> outcome.matched]

MatchOutcomes == {[matched |-> m, binds |-> b] : m \in BOOLEAN, b \in BOOLEAN} \
                 {[matched |-> FALSE, binds |-> TRUE]}

\* Mutant: Match returns the context it was given, not the one the
\* statement-list matcher returned.
Match_returnsOwnContext(outcome, v, dd, r, id) ==
    IF ~v.ptr THEN [d |-> dd, matched |-> FALSE, events |-> <<>>]
    ELSE IF stmtFieldOf(v.type) = "" THEN [d |-> dd, matched |-> FALSE, events |-> <<>>]
    ELSE LET stmtField == stmtFieldOf(v.type)
             stmtPreludeEnd == stmtPreludeEndOf(v, r)
             fields == otherFieldsFrom(v, stmtField, 0)
             stmtsField == stmtsFieldOf(v, stmtField)
             r2 == advance(r, stmtPreludeEnd)
             sd == [Type |-> v.type,
                    StmtFieldIdx |-> stmtsField.FieldIdx,
                    OtherFields |-> fields,
                    UnchangedRegion |-> unchangedRegionOf(r2, stmtPreludeEnd)]
             d2 == WithValue(dd, stmtListKey, sd, id)
             res == StmtsMatch(outcome, stmtsField.Value, d2, r2)
         IN [d |-> dd, matched |-> res.matched,
             events |-> <<MatchCall(stmtsField.Value, d2, r2, res.d, res.matched)>>]

\* func (m stmtSliceContainerMatcher) Match(v, d, r): the returned pair and the
\* calls made.  id names the stmtListData value the invocation creates.
Match(outcome, v, dd, r, id) ==
    IF ~v.ptr THEN [d |-> dd, matched |-> FALSE, events |-> <<>>]
    ELSE IF stmtFieldOf(v.type) = "" THEN [d |-> dd, matched |-> FALSE, events |-> <<>>]
    ELSE LET stmtField == stmtFieldOf(v.type)
             stmtPreludeEnd == stmtPreludeEndOf(v, r)
             fields == otherFieldsFrom(v, stmtField, 0)
             stmtsField == stmtsFieldOf(v, stmtField)
             r2 == advance(r, stmtPreludeEnd)
             sd == [Type |-> v.type,
                    StmtFieldIdx |-> stmtsField.FieldIdx,
                    OtherFields |-> fields,
                    UnchangedRegion |-> unchangedRegionOf(r2, stmtPreludeEnd)]
             d2 == WithValue(dd, stmtListKey, sd, id)
             res == StmtsMatch(outcome, stmtsField.Value, d2, r2)
         IN [d |-> res.d, matched |-> res.matched,
             events |-> <<MatchCall(stmtsField.Value, d2, r2, res.d, res.matched)>>]

\* ------------------------------------------ stmtSliceContainerReplacer
errNoMatches == "no statement matches found"
errUnresolved == "unresolved variable"

\* The Stmts replacer, a collaborator: it generates a statement list or fails.
ReplaceOutcomes == {[err |-> "", stmts |-> s] : s \in StmtLists} \cup
                   {[err |-> errUnresolved, stmts |-> <<>>]}

\* node.Field(f.FieldIdx).Set(f.Value) for each of the other fields
RECURSIVE setOtherFields(_, _)
setOtherFields(fields, others) ==
    IF others = <<>> THEN fields
    ELSE setOtherFields([fields EXCEPT ![Head(others).FieldIdx + 1] = Head(others).Value],
                        Tail(others))

\* Mutant: the region is recorded before the nested replacer is called.
rebuild_recordsFirst(sd, dd, out) ==
    LET node == setOtherFields(ZeroFields(sd.Type), sd.OtherFields)
        call == ReplaceCall(dd, sd.UnchangedRegion.End, out.stmts, out.err)
        rec == UnchangedCall(sd.UnchangedRegion.Pos, sd.UnchangedRegion.End)
    IN IF out.err # ""
       THEN [node |-> NoValue, err |-> out.err, events |-> <<rec, call>>]
       ELSE [node |-> [ptr |-> TRUE, type |-> sd.Type,
                       fields |-> [node EXCEPT ![sd.StmtFieldIdx + 1] = out.stmts]],
             err |-> "",
             events |-> <<rec, call>>]

\* Mutant: the ends of the region are passed to Unchanged in the other order.
rebuild_swappedEnds(sd, dd, out) ==
    LET node == setOtherFields(ZeroFields(sd.Type), sd.OtherFields)
        call == ReplaceCall(dd, sd.UnchangedRegion.End, out.stmts, out.err)
    IN IF out.err # ""
       THEN [node |-> NoValue, err |-> out.err, events |-> <<call>>]
       ELSE [node |-> [ptr |-> TRUE, type |-> sd.Type,
                       fields |-> [node EXCEPT ![sd.StmtFieldIdx + 1] = out.stmts]],
             err |-> "",
             events |-> <<call, UnchangedCall(sd.UnchangedRegion.End, sd.UnchangedRegion.Pos)>>]

\* The part of Replace that runs once the shape metadata is found.
rebuild(sd, dd, out) ==
    LET node == setOtherFields(ZeroFields(sd.Type), sd.OtherFields)
        call == ReplaceCall(dd, sd.UnchangedRegion.End, out.stmts, out.err)
    IN IF out.err # ""
       THEN [node |-> NoValue, err |-> out.err, events |-> <<call>>]
       ELSE [node |-> [ptr |-> TRUE, type |-> sd.Type,
                       fields |-> [node EXCEPT ![sd.StmtFieldIdx + 1] = out.stmts]],
             err |-> "",
             events |-> <<call, UnchangedCall(sd.UnchangedRegion.Pos, sd.UnchangedRegion.End)>>]

\* Mutant: the nested replacer is called before the lookup is checked.
Replace_lookupCheckedLate(out, dd, pos) ==
    LET found == Lookup(dd, stmtListKey)
    IN IF ~found.found
       THEN [node |-> NoValue, err |-> errNoMatches,
             events |-> <<ReplaceCall(dd, pos, out.stmts, out.err)>>]
       ELSE rebuild(found.val, dd, out)

\* func (r stmtSliceContainerReplacer) Replace(d, cl, pos): the returned pair
\* and the calls made.
Replace(out, dd, pos) ==
    LET found == Lookup(dd, stmtListKey)
    IN IF ~found.found
       THEN [node |-> NoValue, err |-> errNoMatches, events |-> <<>>]
       ELSE rebuild(found.val, dd, out)

\* ------------------------------------------------------------- targets
\* The nodes a driver can hand to Match, each with the region of its text.
\* The text is laid out with one offset per token: a BlockStmt is its "{",
\* its statements and its "}"; a clause is its keyword, its ":" and its
\* statements (the expression of the label takes no room).
BlockTargets ==
    {[v |-> [ptr |-> TRUE, type |-> BlockStmtType,
             fields |-> <<p, s, p + 1 + Len(s)>>],
      r |-> Region(p, p + 2 + Len(s))] : p \in Positions, s \in StmtLists}

CaseTargets ==
    {[v |-> [ptr |-> TRUE, type |-> CaseClauseType,
             fields |-> <<p, <<Stmt("x")>>, p + 1, s>>],
      r |-> Region(p, p + 2 + Len(s))] : p \in Positions, s \in StmtLists}

CommTargets ==
    {[v |-> [ptr |-> TRUE, type |-> CommClauseType,
             fields |-> <<p, <<Stmt("recv")>>, p + 1, s>>],
      r |-> Region(p, p + 2 + Len(s))] : p \in Positions, s \in StmtLists}

\* A node that is no statement container, and a container not held through
\* a pointer.
OtherTargets ==
    {[v |-> [ptr |-> TRUE, type |-> ParenExprType, fields |-> <<0, <<Stmt("x")>>, 1>>],
      r |-> Region(0, 2)],
     [v |-> [ptr |-> FALSE, type |-> BlockStmtType, fields |-> <<0, <<>>, 1>>],
      r |-> Region(0, 2)]}

Targets == BlockTargets \cup CaseTargets \cup CommTargets \cup OtherTargets

\* ------------------------------------------------------------ the state
NoRet ==
    [op |-> "none", v |-> NoValue, r |-> Region(0, 0), din |-> EmptyData, pos |-> 0,
     slist |-> <<>>, dout |-> EmptyData, matched |-> FALSE, node |-> NoValue,
     err |-> "", events |-> <<>>]

Init ==
    /\ matcher = [compiled |-> FALSE, Stmts |-> <<>>]
    /\ replacer = [compiled |-> FALSE, Stmts |-> <<>>]
    /\ d = PatchData
    /\ ledger = <<>>
    /\ ledgerIds = <<>>
    /\ nsites = 0
    /\ ret = NoRet
    /\ nops = 0

\* Where a patch starts and ends in its file (c.patchStart, c.patchEnd)
PatchSpans == {p \in (0..MaxOffset) \X (0..MaxOffset) : p[1] < p[2]}

\* The patch compiler builds the matcher from the minus section of a patch.
CompileMatcher ==
    \E slist \in StmtLists, span \in PatchSpans :
      LET patchStart == span[1]
          patchEnd == span[2]
      IN
        /\ matcher' = matcherCompiler_compilePGoStmtList(slist, patchStart, patchEnd)
        /\ ret' = [NoRet EXCEPT !.op = "compileMatcher", !.slist = slist,
                                !.r = Region(patchStart, patchEnd)]
        /\ UNCHANGED <<replacer, d, ledger, ledgerIds, nsites, nops>>

\* The patch compiler builds the replacer from the plus section of a patch.
CompileReplacer ==
    \E slist \in StmtLists, span \in PatchSpans :
      LET patchStart == span[1]
          patchEnd == span[2]
      IN
        /\ replacer' = replacerCompiler_compilePGoStmtList(slist, patchStart, patchEnd)
        /\ ret' = [NoRet EXCEPT !.op = "compileReplacer", !.slist = slist,
                                !.r = Region(patchStart, patchEnd)]
        /\ UNCHANGED <<matcher, d, ledger, ledgerIds, nsites, nops>>

\* The driver tries a node, and keeps the context of a successful match.
DoMatch ==
    /\ nops < MaxOps
    /\ \E t \in Targets, outcome \in MatchOutcomes :
        LET din == PatchData
            res == Match(outcome, t.v, din, t.r, SiteId(nsites + 1, t.r))
        IN /\ d' = IF res.matched THEN res.d ELSE d
           /\ nsites' = IF res.events # <<>> THEN nsites + 1 ELSE nsites
           /\ ret' = [NoRet EXCEPT !.op = "Match", !.v = t.v, !.r = t.r, !.din = din,
                                   !.dout = res.d, !.matched = res.matched,
                                   !.events = res.events]
    /\ nops' = nops + 1
    /\ UNCHANGED <<matcher, replacer, ledger, ledgerIds>>

\* The regions of the cl.Unchanged calls among events
unchangedOf(events) ==
    LET calls == SelectSeq(events, LAMBDA e : e.ev = "Unchanged")
    IN [i \in 1..Len(calls) |-> calls[i].r]

\* The driver generates the output node from the context it holds, or from
\* an empty one.
DoReplace ==
    /\ nops < MaxOps
    /\ \E din \in {EmptyData, d}, pos \in {MaxOffset}, out \in ReplaceOutcomes :
        LET res == Replace(out, din, pos)
            recorded == unchangedOf(res.events)
        IN /\ ledger' = ledger \o recorded
           /\ ledgerIds' = ledgerIds \o [i \in 1..Len(recorded) |-> Lookup(din, stmtListKey).id]
           /\ ret' = [NoRet EXCEPT !.op = "Replace", !.din = din, !.pos = pos,
                                   !.node = res.node, !.err = res.err,
                                   !.events = res.events]
    /\ nops' = nops + 1
    /\ UNCHANGED <<matcher, replacer, d, nsites>>

Next == DoMatch \/ DoReplace

\* The driver applies the patch to a node it matches: Match and then Replace
\* on the context Match returned.  The statement-list replacer fails or
\* generates no statements.
Apply ==
    /\ nops < MaxApply
    /\ \E t \in Targets, fails \in BOOLEAN :
        LET m == Match([matched |-> TRUE, binds |-> FALSE], t.v, PatchData, t.r,
                       SiteId(nsites + 1, t.r))
            out == IF fails THEN [err |-> errUnresolved, stmts |-> <<>>]
                   ELSE [err |-> "", stmts |-> <<>>]
            res == Replace(out, m.d, MaxOffset)
            recorded == unchangedOf(res.events)
        IN /\ m.matched
           /\ nsites' = nsites + 1
           /\ d' = m.d
           /\ ledger' = ledger \o recorded
           /\ ledgerIds' = ledgerIds \o [i \in 1..Len(recorded) |-> Lookup(m.d, stmtListKey).id]
           /\ ret' = [NoRet EXCEPT !.op = "Apply", !.v = t.v, !.r = t.r, !.din = PatchData,
                                   !.dout = m.d, !.matched = m.matched,
                                   !.pos = MaxOffset, !.node = res.node, !.err = res.err,
                                   !.events = m.events \o res.events]
    /\ nops' = nops + 1
    /\ UNCHANGED <<matcher, replacer>>

NextApply == Apply \/ DoReplace

SpecApply == Init /\ [][NextApply]_vars

Spec == Init /\ [][Next]_vars

NextCompile == CompileMatcher \/ CompileReplacer

SpecCompile == Init /\ [][NextCompile]_vars

\* =============================================================== claims
\* A statement container held through a pointer
IsContainerPtr(v) == v.ptr /\ v.type \in {BlockStmtType, CaseClauseType, CommClauseType}

\* The shape metadata values a context holds
MetaIds(dd) == {dd[i].id : i \in {j \in 1..Len(dd) : dd[j].key = stmtListKey}}

Last(s) == s[Len(s)]

\* Two regions share an offset, both ends taken as part of the region
Overlap(a, b) == \E x \in 0..MaxOffset : a.Pos <= x /\ x <= a.End /\ b.Pos <= x /\ x <= b.End

\* The texts of two nodes share nothing: neither is nested in the other
Siblings(a, b) == a.End <= b.Pos \/ b.End <= a.Pos

\* C1 (as claimed): every region Replace passes to the ledger's Unchanged has
\* Pos <= End.
C1_RecordedRegionOrdered ==
    \A i \in 1..Len(ledger) : ledger[i].Pos <= ledger[i].End

\* C2: Replace on a context without shape metadata returns the error "no
\* statement matches found" and no node, calls neither the nested replacer nor
\* the ledger, and leaves the ledger as it was.
C2_MissingContext ==
    [][(ret'.op = "Replace" /\ ~HasKey(ret'.din, stmtListKey))
        => /\ ret'.err = "no statement matches found"
           /\ ret'.node = NoValue
           /\ ret'.events = <<>>
           /\ ledger' = ledger]_vars

C2_Witness ==
    /\ ret.op = "Replace"
    /\ ~HasKey(ret.din, stmtListKey)
    /\ HasKey(d, stmtListKey)
    /\ ret.err = "no statement matches found"

\* C3: a successful Match followed at once by a successful Replace on the
\* context Match returned yields a pointer to a node of the matched node's
\* type whose fields other than the statement list are those of the matched
\* node and whose statement list is what the nested replacer returned.
C3_RoundTrip ==
    [][(/\ ret.op = "Match" /\ ret.matched
        /\ ret'.op = "Replace" /\ ret'.din = ret.dout /\ ret'.err = "")
        => /\ ret'.node.ptr
           /\ ret'.node.type = ret.v.type
           /\ Len(ret'.node.fields) = Len(ret.v.fields)
           /\ \A i \in 1..Len(ret.v.fields) :
                 IF i = (IF ret.v.type = BlockStmtType THEN 2 ELSE 4)
                 THEN ret'.node.fields[i] = ret'.events[1].stmts
                 ELSE ret'.node.fields[i] = ret.v.fields[i]]_vars

C3_Witness ==
    /\ ret.op = "Replace" /\ ret.err = "" /\ ret.din = d
    /\ ret.node.type = CaseClauseType
    /\ ret.node.fields[1] > 0
    /\ ret.node.fields[4] # <<>>

\* C4 (as claimed): Match succeeds on every statement container held through
\* a pointer, capturing all fields but one, and fails on everything else.
C4_AlwaysSucceeds ==
    ret.op = "Match" =>
        IF IsContainerPtr(ret.v)
        THEN /\ ret.matched
             /\ Len(Lookup(ret.dout, stmtListKey).val.OtherFields) = Len(ret.v.fields) - 1
        ELSE ~ret.matched

\* C4 (amended): on a statement container held through a pointer, Match
\* captures shape metadata of the node's type with all fields but one among
\* OtherFields, hands it to the statement-list matcher and succeeds exactly
\* when that matcher does; on any other value it fails, calls nothing and
\* returns the context it was given.
C4_ShapeCoverage ==
    ret.op = "Match" =>
        IF IsContainerPtr(ret.v)
        THEN /\ Len(ret.events) = 1
             /\ Lookup(ret.events[1].d, stmtListKey).found
             /\ Lookup(ret.events[1].d, stmtListKey).val.Type = ret.v.type
             /\ Len(Lookup(ret.events[1].d, stmtListKey).val.OtherFields)
                    = (IF ret.v.type = BlockStmtType THEN 3 ELSE 4) - 1
             /\ ret.matched = ret.events[1].ok
        ELSE ~ret.matched /\ ret.events = <<>> /\ ret.dout = ret.din

C4_Witness ==
    /\ ret.op = "Match" /\ ret.v.type = CommClauseType /\ ret.matched
    /\ Len(Lookup(ret.dout, stmtListKey).val.OtherFields) = 3

\* C5 (as claimed): a patch with no statements is compiled into a statement
\* list that carries the leading and the trailing dots.
C5_EmptyCarriesDots ==
    (ret.op \in {"compileMatcher", "compileReplacer"} /\ ret.slist = <<>>) =>
        LET list == IF ret.op = "compileMatcher" THEN matcher.Stmts ELSE replacer.Stmts
        IN Len(list) >= 2 /\ list[1].dots /\ list[Len(list)].dots

\* C5 (amended): a patch with statements is compiled into its statements
\* between dots at patchStart and dots at patchEnd; a patch with no
\* statements is compiled into the empty statement list, without dots.
C5_DotsOnlyAroundStatements ==
    ret.op \in {"compileMatcher", "compileReplacer"} =>
        LET list == IF ret.op = "compileMatcher" THEN matcher.Stmts ELSE replacer.Stmts
            n == Len(ret.slist)
        IN IF n = 0
           THEN list = <<>>
           ELSE /\ Len(list) = n + 2
                /\ list[1].dots /\ list[1].pos = ret.r.Pos
                /\ list[n + 2].dots /\ list[n + 2].pos = ret.r.End
                /\ \A i \in 1..n : list[i + 1] = ret.slist[i]

C5_Witness ==
    /\ ret.op = "compileMatcher" /\ ret.slist = <<>>
    /\ matcher.compiled /\ matcher.Stmts = <<>>
    /\ replacer.compiled /\ Len(replacer.Stmts) = 3

C7_FailureLeavesContext ==
    (ret.op = "Match" /\ ~ret.matched) => MetaIds(ret.dout) \subseteq MetaIds(ret.din)

\* C7 (amended): a Match that fails before reaching the statement-list
\* matcher returns the context it was given; a Match that fails in the
\* statement-list matcher returns the context that matcher returns, which
\* holds the shape metadata just captured when the matcher hands back the
\* context it was given.
C7_FailureReturnsDelegateContext ==
    (ret.op = "Match" /\ ~ret.matched) =>
        IF ret.events = <<>>
        THEN ret.dout = ret.din
        ELSE /\ ret.dout = ret.events[1].rd
             /\ ret.events[1].rd = ret.events[1].d
                    => /\ Len(ret.dout) = Len(ret.din) + 1
                       /\ Last(ret.dout).key = stmtListKey
                       /\ Last(ret.dout).id \notin MetaIds(ret.din)

C7_Witness ==
    /\ ret.op = "Match" /\ ~ret.matched /\ ret.events # <<>>
    /\ ret.din = PatchData
    /\ Cardinality(MetaIds(ret.dout)) = 1

\* C8: when the shape metadata is there, Replace calls the nested replacer
\* first; if that fails Replace returns its error as it is and no node, and
\* records nothing; if it succeeds Replace records one region, after the call.
C8_ErrorPropagation ==
    [][(ret'.op = "Replace" /\ HasKey(ret'.din, stmtListKey))
        => /\ ret'.events # <<>>
           /\ ret'.events[1].ev = "Stmts.Replace"
           /\ ret'.err = ret'.events[1].err
           /\ IF ret'.events[1].err # ""
              THEN /\ ret'.node = NoValue
                   /\ Len(ret'.events) = 1
                   /\ ledger' = ledger
              ELSE /\ Len(ret'.events) = 2
                   /\ ret'.events[2].ev = "Unchanged"
                   /\ ledger' = Append(ledger, ret'.events[2].r)]_vars

C8_Witness ==
    /\ ret.op = "Replace" /\ ret.err = "unresolved variable"
    /\ HasKey(ret.din, stmtListKey)
    /\ ret.node = NoValue /\ ledger = <<>>

\* C9: on a statement container Match calls the statement-list matcher once,
\* on the statement-list field, with the region from one past the prelude
\* boundary (the region's Pos for a BlockStmt, Colon for a clause) to the
\* region's End, and returns what that call returns; Replace anchors the
\* nested replacer at the End of the captured region, which is the boundary.
C9_Delegation ==
    /\ (ret.op = "Match" /\ IsContainerPtr(ret.v)) =>
          LET boundary == IF ret.v.type = BlockStmtType THEN ret.r.Pos ELSE ret.v.fields[3]
              stmts == IF ret.v.type = BlockStmtType THEN ret.v.fields[2] ELSE ret.v.fields[4]
          IN /\ Len(ret.events) = 1
             /\ ret.events[1].ev = "Stmts.Match"
             /\ ret.events[1].v = stmts
             /\ ret.events[1].r = Region(boundary + 1, ret.r.End)
             /\ Lookup(ret.events[1].d, stmtListKey).val.UnchangedRegion.End = boundary
             /\ ret.dout = ret.events[1].rd
             /\ ret.matched = ret.events[1].ok
    /\ (ret.op = "Replace" /\ HasKey(ret.din, stmtListKey)) =>
          /\ ret.events[1].ev = "Stmts.Replace"
          /\ ret.events[1].pos = Lookup(ret.din, stmtListKey).val.UnchangedRegion.End

C9_Witness ==
    /\ ret.op = "Replace" /\ ret.err = ""
    /\ Lookup(ret.din, stmtListKey).val.Type = CaseClauseType
    /\ ret.events[1].pos = 3
    /\ Last(ret.din).key = varKey

\* C10 (as claimed): no shape metadata value has two ledger entries
\* recorded from it.
C10_ConsumedOnce ==
    \A i \in 1..Len(ledgerIds) : \A j \in 1..Len(ledgerIds) :
        i # j => ledgerIds[i].n # ledgerIds[j].n

\* C10 (amended): one Replace reads the most recent shape metadata of its
\* context once: when the nested replacer succeeds it returns one node of the
\* captured type and records the captured region once, otherwise it records
\* nothing.  Replace leaves the context as it is, so a second Replace on the
\* same context returns a node and records the region again.
C10_OncePerReplace ==
    [][ret'.op = "Replace"
        => /\ d' = d
           /\ IF ret'.err = ""
              THEN /\ ret'.node.type = Lookup(ret'.din, stmtListKey).val.Type
                   /\ ledger' = Append(ledger, Lookup(ret'.din, stmtListKey).val.UnchangedRegion)
                   /\ ledgerIds' = Append(ledgerIds, Lookup(ret'.din, stmtListKey).id)
              ELSE ledger' = ledger /\ ledgerIds' = ledgerIds]_vars

C10_Witness ==
    /\ Len(ledgerIds) = 2
    /\ ledgerIds[1] = ledgerIds[2]
    /\ ledger[1] = ledger[2]

====
